---- MODULE Spec2Model ----
(***************************************************************************)
(* Model of the encoder-bottleneck-decoder GPT of model.py: construction   *)
(* of the parameter tensors (GPT.__init__), one forward pass (GPT.forward),*)
(* autoregressive sampling (GPT.generate), the attention layer             *)
(* (CausalSelfAttention.forward) and the import of a checkpoint            *)
(* (GPT.from_pretrained); and of the data preparation script               *)
(* data/ms2/prepare.py.  Each part has its own specification over the      *)
(* same variables.                                                         *)
(*                                                                         *)
(* Tensors are modelled by what the control flow reads of them: their      *)
(* shapes, the target ids, the logits of the last position and the rows of *)
(* the token embedding table.  The numbers the network computes from its   *)
(* weights (bottleneck vector, logits) and every random draw are inputs of *)
(* the step that produces them, drawn from small sets.  The batch size is  *)
(* one throughout.                                                         *)
(***************************************************************************)
EXTENDS Integers, Sequences, FiniteSets, TLC

VARIABLES
    config,   \* the GPTConfig of the model (self.config)
    pc,       \* position of the caller / of the constructor
    call,     \* the arguments of the call in progress
    ret,      \* what the call gave back: a value or a raised exception
    gen,      \* the locals of GPT.generate (idx, loop counter, last iteration)
    heap,     \* tensor identity -> contents (rows of a weight matrix); the weights of a module
    params,   \* parameter name -> tensor identity (which tensor a module holds); module attributes
    kept,     \* what a caller kept of its completed calls, oldest first
    prep      \* the globals of data/ms2/prepare.py and the files it wrote

vars == <<config, pc, call, ret, gen, heap, params, kept, prep>>

----------------------------------------------------------------------------
(* Bounds of the model *)

MaxBlockSize == 2      \* block sizes 1..MaxBlockSize are explored
MaxNewTokens == 2      \* generate is called with max_new_tokens in 0..MaxNewTokens
MaxLayer == 2          \* n_layer in 0..MaxLayer at construction
MaxHead == 3           \* n_head in 1..MaxHead at construction
MaxEmbd == 4           \* n_embd in 1..MaxEmbd at construction
MaxLines == 3          \* the input file of prepare.py has 0..MaxLines lines
BLOCK_SIZE == 2        \* the width prepare.py cuts and pads every line to (128 in the script)

(* Program constants *)

END_OF_SENTENCE_IDX == 2
IGNORE_INDEX == -1
NUM_INTENSITIES == 10

(* Finite stand-ins for the values of floating point tensors and draws *)

LogitValues == {-1, 0, 1}          \* one logit of the last position
BottleneckValues == {0, 1}         \* one component of the bottleneck vector
Intensities == {0, NUM_INTENSITIES - 1}   \* torch.randint(0, NUM_INTENSITIES): lowest and highest category
Temperatures == {-1, 0, 1, 2}      \* temperatures passed to generate: negative, zero, 1.0 and above
Ids == {0, 1, 2}                   \* the vocabulary of the explored models: PAD, START, END
TargetIds(cfg) == {IGNORE_INDEX, 0, cfg.vocab_size - 1}   \* the sentinel, the lowest and the highest class id
RowValues == {0, 1}                \* one row of a weight matrix; 0 is the zero vector

None == <<>>                       \* Python's None for an optional argument
Some(x) == <<x>>
IsNone(o) == o = <<>>
Val(o) == o[1]

SeqsOfLen(S, n) == [1..n -> S]
SeqsUpTo(S, lo, hi) == UNION {SeqsOfLen(S, n) : n \in lo..hi}

----------------------------------------------------------------------------
(* GPT.forward *)

Raise(e, steps) == [kind |-> "raise", exc |-> e, steps |-> steps]

\* the assertion of line 277 left out
AssertBlockSizeSkipped(cfg, t) == TRUE

\* line 277: assert t <= self.config.block_size
AssertBlockSize(cfg, t) == t <= cfg.block_size

\* line 314: nn.Linear(block_size * n_embd, n_bottleneck) applied to z.view(b, -1),
\* whose rows have t * n_embd features
BottleneckFits(cfg, t) == t * cfg.n_embd = cfg.block_size * cfg.n_embd

\* line 334: F.cross_entropy(..., ignore_index=-1): the mean over the positions
\* whose target is not the ignore index; the loss is kept as the set of the
\* (position, target) pairs that enter that mean
CrossEntropy(targets) ==
    [terms |-> {<<i, targets[i]>> : i \in {j \in 1..Len(targets) : targets[j] # IGNORE_INDEX}}]

\* line 334: a target that is neither a class id nor the ignore index
TargetOutOfBounds(cfg, targets) ==
    \E i \in 1..Len(targets) :
        targets[i] # IGNORE_INDEX /\ (targets[i] < 0 \/ targets[i] >= cfg.vocab_size)

\* line 178: torch.bincount accepts non-negative integers only
BincountAccepts(targets) == \A i \in 1..Len(targets) : targets[i] >= 0

\* The forward pass on idx (one sequence) with optional targets and the embedding
\* flag.  ins is the draw of line 280, d1 and d2 say whether the draws of lines 346
\* and 352 fell below their thresholds, zb and lg are the bottleneck vector and the
\* last row of the logits computed from the weights.  steps lists the stages run.
Forward(cfg, idx, targets, embedding, ins, d1, d2, zb, lg) ==
    LET t == Len(idx)
        enc == <<"embed", "encoder">>
        dec == enc \o <<"bottleneck", "decoder", "lm_head">>
        lss == IF IsNone(targets) THEN dec ELSE dec \o <<"cross_entropy", "custom_loss">>
        loss2 == IF IsNone(targets) THEN None ELSE Some(CrossEntropy(Val(targets)))
    IN  IF ~AssertBlockSize(cfg, t)
          THEN Raise("AssertionError", <<>>)
        ELSE IF ~BottleneckFits(cfg, t)
          THEN Raise("RuntimeError", enc)                       \* line 314: shapes cannot be multiplied
        ELSE IF embedding
          THEN [kind |-> "embedding", z |-> zb, steps |-> enc \o <<"bottleneck">>]
        ELSE IF ~IsNone(targets) /\ TargetOutOfBounds(cfg, Val(targets))
          THEN Raise("IndexError", dec \o <<"cross_entropy">>)  \* line 334
        ELSE IF ~IsNone(targets) /\ ~BincountAccepts(Val(targets))
          THEN Raise("RuntimeError", lss)                       \* line 178 via line 341
        ELSE IF d1 /\ IsNone(loss2)
          THEN Raise("TypeError", lss \o <<"log1">>)            \* line 346: float(None)
        ELSE IF d2 /\ IsNone(targets)
          THEN Raise("UnboundLocalError", lss \o <<"log2">>)    \* line 353: alt_loss2 was never assigned
        ELSE [kind |-> "pair",
              logits |-> [shape |-> <<1, cfg.block_size, cfg.vocab_size>>, last |-> lg],
              loss |-> loss2,
              logged |-> d2,
              steps |-> lss]

\* Every outcome of one forward pass: over the random draws of lines 280, 346 and
\* 352 and over the values the weights give the bottleneck vector and the logits
ForwardOutcomes(cfg, idx, targets, embedding) ==
    {Forward(cfg, idx, targets, embedding, ins, d1, d2, zb, lg) :
        ins \in SeqsOfLen(Intensities, Len(idx)),
        d1 \in BOOLEAN, d2 \in BOOLEAN,
        zb \in SeqsOfLen(BottleneckValues, cfg.n_bottleneck),
        lg \in [0..(cfg.vocab_size - 1) -> LogitValues]}

\* A model as left by construction: the sizes forward and generate read
CallConfigs ==
    {[block_size |-> b, vocab_size |-> Cardinality(Ids), n_layer |-> 1, n_head |-> 1,
      n_embd |-> 2, n_bottleneck |-> 1] : b \in 1..MaxBlockSize}

NoCall == [op |-> "none"]
NoRet == [kind |-> "none"]
NoGen == [idx |-> <<>>]

InitForward ==
    /\ config \in CallConfigs
    /\ pc = "idle"
    /\ call = NoCall
    /\ ret = NoRet
    /\ gen = NoGen
    /\ heap = <<>>
    /\ params = <<>>
    /\ kept = <<>>
    /\ prep = <<>>

\* model(idx, targets, embedding) by a caller
ForwardCall ==
    /\ pc = "idle"
    /\ \E idx \in SeqsUpTo(Ids, 1, config.block_size + 1), embedding \in BOOLEAN :
         \E targets \in {None} \cup {Some(s) : s \in SeqsOfLen(TargetIds(config), Len(idx))} :
            /\ call' = [op |-> "forward", idx |-> idx, targets |-> targets, embedding |-> embedding]
            /\ pc' = "forward"
    /\ UNCHANGED <<config, ret, gen, heap, params, kept, prep>>

\* the body of GPT.forward, lines 275-356
ForwardBody ==
    /\ pc = "forward"
    /\ ret' \in ForwardOutcomes(config, call.idx, call.targets, call.embedding)
    /\ pc' = "forward_done"
    /\ UNCHANGED <<config, call, gen, heap, params, kept, prep>>

NextForward == ForwardCall \/ ForwardBody

SpecForward == InitForward /\ [][NextForward]_vars

----------------------------------------------------------------------------
(* GPT.generate *)

\* the running sequence forwarded whole, whatever its length
CropSkipped(cfg, idx) == idx

\* line 494: idx if idx.size(1) <= block_size else idx[:, -block_size:]
Crop(cfg, idx) ==
    IF Len(idx) <= cfg.block_size THEN idx
    ELSE SubSeq(idx, Len(idx) - cfg.block_size + 1, Len(idx))

\* line 498: logits / temperature, kept as the fraction <<logit, temperature>>
Scale(lg, temperature) == [v \in DOMAIN lg |-> <<lg[v], temperature>>]

\* x < y for two fractions with non-zero denominators
Less(x, y) == x[1] * x[2] * y[2] * y[2] < y[1] * y[2] * x[2] * x[2]

\* torch.topk: the k-th largest of the values, counted with multiplicity
RankValue(logits, k) ==
    LET v == CHOOSE u \in DOMAIN logits :
                /\ Cardinality({w \in DOMAIN logits : Less(logits[u], logits[w])}) < k
                /\ Cardinality({w \in DOMAIN logits : ~Less(logits[w], logits[u])}) >= k
    IN  logits[v]

\* the threshold taken one rank too low
KthLargestOffByOne(logits, k) ==
    RankValue(logits, IF k < Cardinality(DOMAIN logits) THEN k + 1 ELSE k)

\* line 501-502: v[:, [-1]], the last of the k values torch.topk(logits, k) returns
KthLargest(logits, k) == RankValue(logits, k)

\* lines 500-502: the ids whose logit is set to -inf
Masked(logits, top_k) ==
    IF IsNone(top_k) THEN {}
    ELSE LET k == IF Val(top_k) < Cardinality(DOMAIN logits)
                  THEN Val(top_k) ELSE Cardinality(DOMAIN logits)
         IN  {v \in DOMAIN logits : Less(logits[v], KthLargest(logits, k))}

\* line 504: softmax gives probability 0 to -inf and a positive probability to
\* every finite logit; the value kept is whether the probability is positive
Softmax(logits, masked) == [v \in DOMAIN logits |-> v \notin masked]

\* line 506: torch.multinomial draws an id of positive probability
Multinomial(probs) == {v \in DOMAIN probs : probs[v]}

\* lines 498, 504, 506: a division by temperature 0 gives inf, -inf or nan at every
\* id, softmax turns such a row into nan, and torch.multinomial refuses a
\* probability row that holds nan with a RuntimeError
MultinomialRefuses(logits) == \E v \in DOMAIN logits : logits[v][2] = 0

\* the running sequence kept as a window that drops its oldest id
CatSliding(idx, idx_next) == Append(Tail(idx), idx_next)

\* line 508: idx = torch.cat((idx, idx_next), dim=1)
Cat(idx, idx_next) == Append(idx, idx_next)

\* line 511: if idx_next == END_OF_SENTENCE_IDX: break
BreakOnEnd(idx_next) == idx_next = END_OF_SENTENCE_IDX

\* the conditioning sequences explored: START .. START and START .. START END, of
\* every length from 1 to one more than the block size
Prefixes(cfg) ==
    UNION {{[i \in 1..p |-> 1], [i \in 1..p |-> IF i = p THEN END_OF_SENTENCE_IDX ELSE 1]} :
              p \in 1..(cfg.block_size + 1)}

InitGenerate == InitForward

\* model.generate(idx, max_new_tokens, temperature, top_k) by a caller
GenerateCall ==
    /\ pc = "idle"
    /\ \E idx \in Prefixes(config),
          max_new_tokens \in 0..MaxNewTokens,
          temperature \in Temperatures,
          top_k \in {None} \cup {Some(k) : k \in 1..(config.vocab_size + 1)} :
         /\ call' = [op |-> "generate", idx |-> idx, max_new_tokens |-> max_new_tokens,
                     temperature |-> temperature, top_k |-> top_k]
         /\ gen' = [idx |-> idx, i |-> 0, sampled |-> <<>>, broke |-> FALSE,
                    idx_cond |-> <<>>, logits |-> <<>>, probs |-> <<>>]
    /\ pc' = "generate"
    /\ UNCHANGED <<config, ret, heap, params, kept, prep>>

\* one iteration of the loop of line 492, lines 493-512
GenerateIter ==
    /\ pc = "generate"
    /\ gen.i < call.max_new_tokens
    /\ ~gen.broke
    /\ LET idx_cond == Crop(config, gen.idx) IN
       \E r \in ForwardOutcomes(config, idx_cond, None, FALSE) :   \* line 496: self(idx_cond)
         IF r.kind = "raise"
         THEN \* the exception of the forward pass leaves generate
              /\ ret' = r
              /\ gen' = [gen EXCEPT !.idx_cond = idx_cond]
              /\ pc' = "generate_done"
         ELSE LET logits == Scale(r.logits.last, call.temperature)
                  probs == Softmax(logits, Masked(logits, call.top_k))
              IN  IF MultinomialRefuses(logits)
                  THEN /\ ret' = Raise("RuntimeError", r.steps \o <<"multinomial">>)
                       /\ gen' = [gen EXCEPT !.idx_cond = idx_cond]
                       /\ pc' = "generate_done"
                  ELSE
                  \E idx_next \in Multinomial(probs) :
                     /\ gen' = [idx |-> Cat(gen.idx, idx_next),
                                i |-> gen.i + 1,
                                sampled |-> Append(gen.sampled, idx_next),
                                broke |-> BreakOnEnd(idx_next),
                                idx_cond |-> idx_cond,
                                logits |-> logits,
                                probs |-> probs]
                     /\ pc' = "generate"
                     /\ ret' = ret
    /\ UNCHANGED <<config, call, heap, params, kept, prep>>

\* line 513: return idx, once the loop is exhausted or was left by break
GenerateReturn ==
    /\ pc = "generate"
    /\ gen.i = call.max_new_tokens \/ gen.broke
    /\ ret' = [kind |-> "return", idx |-> gen.idx]
    /\ pc' = "generate_done"
    /\ UNCHANGED <<config, call, gen, heap, params, kept, prep>>

NextGenerate == GenerateCall \/ GenerateIter \/ GenerateReturn

SpecGenerate == InitGenerate /\ [][NextGenerate]_vars

----------------------------------------------------------------------------
(* Properties of GPT.forward, checked under SpecForward *)

ForwardDone == pc = "forward_done"
FullBlock == Len(call.idx) = config.block_size
HasSentinel(targets) == \E i \in 1..Len(targets) : targets[i] = IGNORE_INDEX

\* C1: a forward call on a block_size-long sequence returns normally whatever the
\* logging draws are: the bottleneck vector when the embedding flag is set,
\* otherwise a (logits, loss) pair whose loss is None when no targets were given.
C1_ForwardReturnsNormally ==
    (ForwardDone /\ FullBlock) =>
        /\ ret.kind # "raise"
        /\ call.embedding => ret.kind = "embedding"
        /\ ~call.embedding =>
              /\ ret.kind = "pair"
              /\ IsNone(call.targets) => IsNone(ret.loss)

\* C2: a forward call whose targets carry the ignore sentinel at some positions
\* returns a (logits, loss) pair, the loss taken over the other positions only.
C2_SentinelTargetsGiveLoss ==
    (/\ ForwardDone /\ FullBlock /\ ~call.embedding
     /\ ~IsNone(call.targets) /\ HasSentinel(Val(call.targets))) =>
        /\ ret.kind = "pair"
        /\ ~IsNone(ret.loss)
        /\ Val(ret.loss).terms =
              {<<i, Val(call.targets)[i]>> :
                  i \in {j \in 1..Len(call.idx) : Val(call.targets)[j] # IGNORE_INDEX}}

\* C7: a forward call on a sequence longer than the block size fails with the
\* assertion before any embedding, encoder or decoder stage has run.
C7_TooLongIsRefused ==
    (ForwardDone /\ Len(call.idx) > config.block_size) =>
        ret = Raise("AssertionError", <<>>)

C7_Witness ==
    /\ ForwardDone
    /\ Len(call.idx) = config.block_size + 1
    /\ ret.kind = "raise"
    /\ ret.exc = "AssertionError"

----------------------------------------------------------------------------
(* Properties of GPT.generate, checked under SpecGenerate *)

GenerateDone == pc = "generate_done"
Last(s) == s[Len(s)]

\* C3: generate, called with a positive temperature, samples at most max_new_tokens tokens; it ends with fewer exactly
\* when the token just sampled is the end-of-sequence id, and for no other reason;
\* nothing is sampled after an end-of-sequence id.
C3_GenerateStopsOnlyAtEnd ==
    (GenerateDone /\ call.temperature > 0) =>
        /\ Len(gen.sampled) <= call.max_new_tokens
        /\ Len(gen.sampled) < call.max_new_tokens =>
              (Len(gen.sampled) > 0 /\ Last(gen.sampled) = END_OF_SENTENCE_IDX)
        /\ \A i \in 1..(Len(gen.sampled) - 1) : gen.sampled[i] # END_OF_SENTENCE_IDX

\* the call was ended by the logging lines 346-353 of a forward pass (see C1)
EndedByLogging == ret.kind = "raise" /\ ret.exc \in {"TypeError", "UnboundLocalError"}

\* C4: generate on a prefix of length p >= 1 (shorter than the block size included)
\* with max_new_tokens = n >= 1 and a positive temperature returns a sequence of length p+1 .. p+n, shorter
\* than p+n only if the end-of-sequence id was sampled.  Stated for the calls the
\* logging lines of forward do not end, so that a violation is one of generate.
C4_GenerateLengthInRange ==
    (GenerateDone /\ call.max_new_tokens >= 1 /\ call.temperature > 0 /\ ~EndedByLogging) =>
        /\ ret.kind = "return"
        /\ Len(ret.idx) >= Len(call.idx) + 1
        /\ Len(ret.idx) <= Len(call.idx) + call.max_new_tokens
        /\ Len(ret.idx) < Len(call.idx) + call.max_new_tokens =>
              \E i \in 1..Len(gen.sampled) : gen.sampled[i] = END_OF_SENTENCE_IDX

\* C5: the sequence generate returns is the whole conditioning prefix followed by
\* every sampled token in sampling order (cropping the context removes nothing),
\* and an end-of-sequence id among the sampled tokens is the last of them.
C5_ReturnsPrefixThenSamples ==
    (GenerateDone /\ ret.kind = "return") =>
        /\ ret.idx = call.idx \o gen.sampled
        /\ \A i \in 1..(Len(gen.sampled) - 1) : gen.sampled[i] # END_OF_SENTENCE_IDX

C5_Witness ==
    /\ GenerateDone
    /\ ret.kind = "return"
    /\ Len(gen.idx_cond) < Len(ret.idx) - 1          \* the last context was cropped
    /\ Len(gen.sampled) = 2
    /\ Last(gen.sampled) = END_OF_SENTENCE_IDX
    /\ END_OF_SENTENCE_IDX \in {call.idx[i] : i \in 1..Len(call.idx)}

\* the number of ids whose logit is strictly higher than that of v
Above(logits, v) == Cardinality({w \in DOMAIN logits : Less(logits[v], logits[w])})

SampledOnce == pc \in {"generate", "generate_done"} /\ Len(gen.sampled) > 0

\* C6: with top_k = k, in every step every id of positive probability has a
\* pre-softmax logit among the k highest of the step (k capped at vocab_size),
\* every other id has probability zero, and the sampled id has positive probability.
C6_SampledAmongTopK ==
    (SampledOnce /\ ~IsNone(call.top_k)) =>
        LET k == IF Val(call.top_k) < config.vocab_size
                 THEN Val(call.top_k) ELSE config.vocab_size
        IN  /\ \A v \in DOMAIN gen.logits : gen.probs[v] => Above(gen.logits, v) < k
            /\ gen.probs[Last(gen.sampled)]

C6_Witness ==
    /\ SampledOnce
    /\ call.top_k = Some(2)
    /\ call.temperature = 2
    /\ \E v \in DOMAIN gen.logits : ~gen.probs[v]
    /\ Cardinality({v \in DOMAIN gen.logits : gen.probs[v]}) = 2

----------------------------------------------------------------------------
(* GPT.__init__ and in-place parameter updates *)

WTE == "transformer.wte.weight"
ENC_WTE == "encoder.wte.weight"
LM_HEAD == "lm_head.weight"

Rows(cfg) == 0..(cfg.vocab_size - 1)

\* nn.Linear(n_embd, vocab_size).weight and nn.init.normal_: every row is drawn
DrawnTensors(cfg) == [Rows(cfg) -> RowValues]

\* nn.Embedding(vocab_size, n_embd, padding_idx=0).weight: rows drawn, then the
\* row of the padding index is filled with zeros
EmbeddingTensors(cfg) == {w \in DrawnTensors(cfg) : w[0] = 0}

\* the assertion of line 34 left out
AttnAssertSkipped(cfg) == TRUE

\* line 34: assert config.n_embd % config.n_head == 0
AttnAssert(cfg) == cfg.n_embd % cfg.n_head = 0

\* lines 204, 217, 223: [Block(config) for _ in range(config.n_layer)]; each Block
\* builds one CausalSelfAttention, whose constructor asserts
BlocksRaise(cfg) == \E layer \in 1..cfg.n_layer : ~AttnAssert(cfg)

\* only the transformer table is tied
TiedTransformerOnly(p) == [p EXCEPT ![WTE] = p[LM_HEAD]]

\* lines 234-235: both token embedding modules are given lm_head's weight
Tied(p) == [p EXCEPT ![WTE] = p[LM_HEAD], ![ENC_WTE] = p[LM_HEAD]]

Referenced(p) == {p[n] : n \in DOMAIN p}

BuildConfigs ==
    {[block_size |-> 2, vocab_size |-> Cardinality(Ids), n_layer |-> l, n_head |-> h,
      n_embd |-> e, n_bottleneck |-> 1] : l \in 0..MaxLayer, h \in 1..MaxHead, e \in 1..MaxEmbd}

InitBuild ==
    /\ config \in BuildConfigs
    /\ pc = "init"
    /\ call = NoCall
    /\ ret = NoRet
    /\ gen = NoGen
    /\ heap = <<>>
    /\ params = <<>>
    /\ kept = <<>>
    /\ prep = <<>>

\* lines 200-206: self.transformer
BuildTransformer ==
    /\ pc = "init"
    /\ IF BlocksRaise(config)
       THEN /\ pc' = "raised"
            /\ ret' = Raise("AssertionError", <<>>)
            /\ UNCHANGED <<heap, params>>
       ELSE /\ pc' = "transformer"
            /\ \E w \in EmbeddingTensors(config) : heap' = (1 :> w)
            /\ params' = (WTE :> 1)
            /\ ret' = ret
    /\ UNCHANGED <<config, call, gen, kept, prep>>

\* lines 211-220: self.encoder
BuildEncoder ==
    /\ pc = "transformer"
    /\ IF BlocksRaise(config)
       THEN /\ pc' = "raised"
            /\ ret' = Raise("AssertionError", <<>>)
            /\ UNCHANGED <<heap, params>>
       ELSE /\ pc' = "encoder"
            /\ \E w \in EmbeddingTensors(config) : heap' = heap @@ (2 :> w)
            /\ params' = params @@ (ENC_WTE :> 2)
            /\ ret' = ret
    /\ UNCHANGED <<config, call, gen, kept, prep>>

\* lines 221-229: self.decoder and self.lm_head
BuildDecoder ==
    /\ pc = "encoder"
    /\ IF BlocksRaise(config)
       THEN /\ pc' = "raised"
            /\ ret' = Raise("AssertionError", <<>>)
            /\ UNCHANGED <<heap, params>>
       ELSE /\ pc' = "lm_head"
            /\ \E w \in DrawnTensors(config) : heap' = heap @@ (3 :> w)
            /\ params' = params @@ (LM_HEAD :> 3)
            /\ ret' = ret
    /\ UNCHANGED <<config, call, gen, kept, prep>>

\* lines 234-235: weight tying; a tensor no module holds any more is freed
TieWeights ==
    /\ pc = "lm_head"
    /\ params' = Tied(params)
    /\ heap' = [t \in Referenced(params') |-> heap[t]]
    /\ pc' = "tied"
    /\ UNCHANGED <<config, call, ret, gen, kept, prep>>

\* line 238: self.apply(self._init_weights): normal_ on the weight of every Linear
\* and every Embedding, over all of its rows
InitWeights ==
    /\ pc = "tied"
    /\ heap' \in [DOMAIN heap -> DrawnTensors(config)]
    /\ pc' = "inited"
    /\ UNCHANGED <<config, call, ret, gen, params, kept, prep>>

\* lines 240-245: the scaled init of the c_proj weights (no token table among them),
\* the parameter count; the constructor returns
FinishInit ==
    /\ pc = "inited"
    /\ pc' = "built"
    /\ ret' = [kind |-> "model"]
    /\ UNCHANGED <<config, call, gen, heap, params, kept, prep>>

\* an in-place update of one row of the tensor a module holds (an optimizer step,
\* a copy_ into the state dict)
Update ==
    /\ pc = "built"
    /\ \E name \in DOMAIN params, row \in Rows(config), val \in RowValues :
         /\ heap' = [heap EXCEPT ![params[name]][row] = val]
         /\ call' = [op |-> "update", name |-> name, row |-> row, val |-> val]
    /\ UNCHANGED <<config, pc, ret, gen, params, kept, prep>>

NextBuild ==
    \/ BuildTransformer \/ BuildEncoder \/ BuildDecoder
    \/ TieWeights \/ InitWeights \/ FinishInit \/ Update

SpecBuild == InitBuild /\ [][NextBuild]_vars

----------------------------------------------------------------------------
(* Properties of construction, checked under SpecBuild *)

Indivisible == config.n_embd % config.n_head # 0
ConstructionOver == pc \in {"built", "raised"}

\* C8 (as claimed): whatever the other fields are, the number of layers included,
\* constructing a model whose n_embd is not divisible by n_head ends in the assertion.
C8_IndivisibleAlwaysAsserts ==
    (ConstructionOver /\ Indivisible) =>
        (pc = "raised" /\ ret = Raise("AssertionError", <<>>))

\* C8 (amended): with at least one layer, constructing a model whose n_embd is not
\* divisible by n_head ends in the assertion and no model is built.
C8_IndivisibleAssertsWithLayers ==
    (pc # "init" /\ Indivisible /\ config.n_layer >= 1) =>
        (pc = "raised" /\ ret = Raise("AssertionError", <<>>) /\ params = <<>>)

C8_Witness ==
    /\ pc = "raised"
    /\ Indivisible
    /\ config.n_layer = 2
    /\ ret.exc = "AssertionError"

Read(name) == heap[params[name]]

\* C9: once the model is built, and after any in-place updates, transformer.wte,
\* encoder.wte and lm_head hold one tensor: what is written through one name is
\* read through the other two.
C9_WeightsTied ==
    pc = "built" =>
        /\ params[WTE] = params[LM_HEAD]
        /\ params[ENC_WTE] = params[LM_HEAD]
        /\ Read(WTE) = Read(LM_HEAD)
        /\ Read(ENC_WTE) = Read(LM_HEAD)
        /\ call.op = "update" => \A n \in DOMAIN params : Read(n)[call.row] = call.val

C9_Witness ==
    /\ pc = "built"
    /\ call.op = "update"
    /\ call.name = ENC_WTE
    /\ call.val = 1
    /\ Read(WTE)[call.row] = 1
    /\ Read(LM_HEAD)[call.row] = 1

\* C10: immediately after construction row 0 of the token embedding table, the row
\* of the padding id, is the zero vector.
C10_PaddingRowZero ==
    (pc = "built" /\ call.op # "update") =>
        (Read(WTE)[0] = 0 /\ Read(ENC_WTE)[0] = 0)

----------------------------------------------------------------------------
(* The context of each iteration and the temperature, checked under SpecGenerate *)

\* an iteration of the loop has run: its context is recorded
Iterated == pc \in {"generate", "generate_done"} /\ gen.idx_cond # <<>>

\* the running sequence the last iteration started with: the one kept when the
\* iteration raised, the one kept less the token it appended otherwise
RunningBefore ==
    IF ret.kind = "raise" THEN gen.idx ELSE SubSeq(gen.idx, 1, Len(gen.idx) - 1)

\* C15: in every iteration of generate the sequence given to the forward pass is
\* the whole running sequence when that is at most block_size long and exactly
\* its last block_size tokens otherwise; it is never longer than block_size and
\* the length assertion of the forward pass never fires during generation.
C15_ContextIsCroppedRunningSequence ==
    Iterated =>
        LET s == RunningBefore
            n == Len(RunningBefore)
            b == config.block_size
        IN  /\ Len(gen.idx_cond) <= b
            /\ n <= b => gen.idx_cond = s
            /\ n > b => /\ Len(gen.idx_cond) = b
                        /\ \A j \in 1..b : gen.idx_cond[j] = s[n - b + j]
            /\ ~(ret.kind = "raise" /\ ret.exc = "AssertionError")

C15_Witness ==
    /\ Iterated
    /\ ret.kind # "raise"
    /\ Len(RunningBefore) = config.block_size + 2
    /\ Len(gen.idx_cond) = config.block_size
    /\ gen.idx_cond # SubSeq(call.idx, 1, config.block_size)

\* C13: generate called with a temperature of zero or below (and at least one
\* token asked for) samples no token and ends by raising to its caller; it
\* returns no sequence.
C13_NonPositiveTemperatureRefused ==
    (/\ pc \in {"generate", "generate_done"}
     /\ call.temperature <= 0
     /\ call.max_new_tokens >= 1) =>
        /\ gen.sampled = <<>>
        /\ GenerateDone => ret.kind = "raise"

----------------------------------------------------------------------------
(* CausalSelfAttention.forward *)
(* One head of width one (n_embd = n_head = 1, so 1/sqrt(head size) = 1), no    *)
(* bias terms, dropout disabled.  An input is a sequence of integers, one per   *)
(* position; an output value is the fraction <<numerator, denominator>>.  The   *)
(* exponential of the softmax is taken to base 2, which keeps every weight an   *)
(* integer: exp(score) is modelled by 2^(score + ScoreShift), the common factor *)
(* 2^ScoreShift cancelling in the softmax.                                      *)

XValues == {-1, 0, 1}             \* one component of the input x
QKWeights == {-1, 1}              \* the query and key columns of c_attn
VWeights == {1, 2}                \* the value column of c_attn
ScoreShift == 1                   \* |q * k| <= ScoreShift for the values above

RECURSIVE Exp2(_)
Exp2(n) == IF n <= 0 THEN 1 ELSE 2 * Exp2(n - 1)

RECURSIVE Sum(_, _)
Sum(f, S) == IF S = {} THEN 0
             ELSE LET j == CHOOSE k \in S : TRUE IN f[j] + Sum(f, S \ {j})

\* a mask buffer that hides nothing
BiasAllOnes(cfg) == [i \in 1..cfg.block_size |-> [j \in 1..cfg.block_size |-> 1]]

\* lines 50-51: torch.tril(torch.ones(block_size, block_size)), registered as "bias"
Bias(cfg) == [i \in 1..cfg.block_size |-> [j \in 1..cfg.block_size |-> IF j <= i THEN 1 ELSE 0]]

\* line 72: (q @ k.transpose(-2, -1)) * (1.0 / math.sqrt(k.size(-1)))
Score(w, x, i, j) == (w.q * x[i]) * (w.k * x[j])

\* lines 73-74: masked_fill(self.bias[:, :, :T, :T] == 0, -inf) and the numerators of
\* the softmax over the keys: exp(-inf) = 0 where the mask is 0
ManualAtt(cfg, w, x) ==
    [i \in 1..Len(x) |-> [j \in 1..Len(x) |->
        IF Bias(cfg)[i][j] = 0 THEN 0 ELSE Exp2(Score(w, x, i, j) + ScoreShift)]]

\* line 68: scaled_dot_product_attention(..., is_causal=True): key j is attended
\* from query i only when j <= i
FlashAtt(cfg, w, x) ==
    [i \in 1..Len(x) |-> [j \in 1..Len(x) |->
        IF j > i THEN 0 ELSE Exp2(Score(w, x, i, j) + ScoreShift)]]

\* lines 53-80: y = softmax(att) @ v, then c_proj; one output value per position
AttnForward(cfg, w, flash, x) ==
    LET att == IF flash THEN FlashAtt(cfg, w, x) ELSE ManualAtt(cfg, w, x)
        T == 1..Len(x)
    IN  [i \in T |-> <<w.o * Sum([j \in T |-> att[i][j] * (w.v * x[j])], T),
                       Sum(att[i], T)>>]

AttnConfigs ==
    {[block_size |-> b, vocab_size |-> Cardinality(Ids), n_layer |-> 1, n_head |-> 1,
      n_embd |-> 1, n_bottleneck |-> 1] : b \in 1..MaxBlockSize}

\* lines 36-45: the module after construction, its weights and its flash attribute
InitAttention ==
    /\ config \in AttnConfigs
    /\ pc = "idle"
    /\ call = NoCall
    /\ ret = NoRet
    /\ gen = NoGen
    /\ heap \in [q : QKWeights, k : QKWeights, v : VWeights, o : {1}]
    /\ params \in [flash : BOOLEAN]
    /\ kept = <<>>
    /\ prep = <<>>

\* attn(x) by a caller, on an input of 1..block_size positions; two calls are made
AttnCall ==
    /\ pc \in {"idle", "attn_done"}
    /\ Len(kept) < 2
    /\ \E t \in 1..config.block_size : \E x \in SeqsOfLen(XValues, t) :
          call' = [op |-> "attention", x |-> x]
    /\ pc' = "attn"
    /\ UNCHANGED <<config, ret, gen, heap, params, kept, prep>>

\* the body of CausalSelfAttention.forward
AttnBody ==
    /\ pc = "attn"
    /\ ret' = [kind |-> "attention", y |-> AttnForward(config, heap, params.flash, call.x)]
    /\ kept' = Append(kept, [x |-> call.x, y |-> ret'.y])
    /\ pc' = "attn_done"
    /\ UNCHANGED <<config, call, gen, heap, params, prep>>

NextAttention == AttnCall \/ AttnBody

SpecAttention == InitAttention /\ [][NextAttention]_vars

\* two output values are the same number
SameValue(a, b) == a[1] * b[2] = b[1] * a[2]

\* the two inputs agree on the positions up to i
AgreeUpTo(x1, x2, i) == \A j \in 1..i : x1[j] = x2[j]

\* C11: on the fused and on the manual path alike, the output of the attention
\* layer has one value per input position, and two inputs that agree on the
\* positions up to i have the same output at position i, whatever they hold at
\* later positions.
C11_AttentionIsCausal ==
    /\ \A c \in 1..Len(kept) : Len(kept[c].y) = Len(kept[c].x) /\ \A i \in 1..Len(kept[c].y) : kept[c].y[i][2] > 0
    /\ Len(kept) = 2 =>
          \A i \in 1..Len(kept[1].x) :
              (i <= Len(kept[2].x) /\ AgreeUpTo(kept[1].x, kept[2].x, i)) =>
                  SameValue(kept[1].y[i], kept[2].y[i])

\* two inputs that agree on the first position and differ on the second, whose
\* outputs agree on the first position and differ on the second
C11_Witness ==
    /\ Len(kept) = 2
    /\ Len(kept[1].x) = 2 /\ Len(kept[2].x) = 2
    /\ kept[1].x[1] = kept[2].x[1]
    /\ kept[1].x[2] # kept[2].x[2]
    /\ kept[1].x[1] # 0
    /\ SameValue(kept[1].y[1], kept[2].y[1])
    /\ ~SameValue(kept[1].y[2], kept[2].y[2])
    /\ ~params.flash

----------------------------------------------------------------------------
(* GPT.forward with the embedding flag, computed from fixed weights *)
(* The embedding tables are kept row by row, a row being one number.  What the  *)
(* blocks, ln_f and the bottleneck layer compute from the embedded sequence is  *)
(* a function of that sequence alone once the weights are fixed and dropout is  *)
(* disabled; it is kept as a term over the embedded sequence, so two bottleneck *)
(* vectors are equal exactly when the embedded sequences are.                   *)

\* the sum of the embeddings with the intensity embedding added in
EmbedSumWithIntensity(tok_emb, pos_emb, ins_emb) ==
    [i \in DOMAIN tok_emb |-> tok_emb[i] + pos_emb[i] + ins_emb[i]]

\* line 306: tok_emb + pos_emb
EmbedSum(tok_emb, pos_emb, ins_emb) ==
    [i \in DOMAIN tok_emb |-> tok_emb[i] + pos_emb[i]]

\* lines 302-306: the three embedding lookups and the input of the first block
EncoderInput(w, idx, ins) ==
    LET tok_emb == [i \in 1..Len(idx) |-> w.wte[idx[i]]]
        pos_emb == [i \in 1..Len(idx) |-> w.wpe[i]]
        ins_emb == [i \in 1..Len(idx) |-> w.wie[ins[i]]]
    IN  EmbedSum(tok_emb, pos_emb, ins_emb)

\* lines 307-314: blocks, ln_f, view and encoder.bottleneck: n_bottleneck output
\* units, each a function of the whole embedded sequence
Bottleneck(cfg, z) == [j \in 1..cfg.n_bottleneck |-> [unit |-> j, of |-> z]]

\* the tables encoder.wte, encoder.wpe and encoder.wie of a model
EmbedWeights(cfg) ==
    [wte : [Ids -> RowValues], wpe : [1..cfg.block_size -> RowValues],
     wie : [Intensities -> RowValues]]

InitEmbed ==
    /\ config \in CallConfigs
    /\ pc = "idle"
    /\ call = NoCall
    /\ ret = NoRet
    /\ gen = NoGen
    /\ heap \in EmbedWeights(config)
    /\ params = <<>>
    /\ kept = <<>>
    /\ prep = <<>>

\* model(idx, embedding=True) by a caller
EmbedCall ==
    /\ pc = "idle"
    /\ \E idx \in Prefixes(config) :
          call' = [op |-> "forward", idx |-> idx, targets |-> None, embedding |-> TRUE]
    /\ pc' = "forward"
    /\ UNCHANGED <<config, ret, gen, heap, params, kept, prep>>

\* the body of forward; the caller keeps the result, and the draw of line 280 is
\* recorded with it
EmbedBody ==
    /\ pc = "forward"
    /\ \E ins \in SeqsOfLen(Intensities, Len(call.idx)) :
       \E r \in {Forward(config, call.idx, call.targets, call.embedding, ins, d1, d2,
                          Bottleneck(config, EncoderInput(heap, call.idx, ins)), lg) :
                      d1 \in BOOLEAN, d2 \in BOOLEAN,
                      lg \in [0..(config.vocab_size - 1) -> LogitValues]} :
          /\ ret' = r
          /\ kept' = Append(kept, [ins |-> ins, ret |-> r])
    /\ pc' = "forward_done"
    /\ UNCHANGED <<config, call, gen, heap, params, prep>>

\* the caller makes the same call a second time
EmbedAgain ==
    /\ pc = "forward_done"
    /\ Len(kept) < 2
    /\ pc' = "forward"
    /\ UNCHANGED <<config, call, ret, gen, heap, params, kept, prep>>

NextEmbed == EmbedCall \/ EmbedBody \/ EmbedAgain

SpecEmbed == InitEmbed /\ [][NextEmbed]_vars

\* C12: with the weights fixed and dropout disabled, two forward calls with the
\* embedding flag on the same block_size-long input return the same bottleneck
\* vector, of length n_bottleneck, whatever intensities each call drew.
C12_EmbeddingIgnoresIntensities ==
    (Len(kept) = 2 /\ FullBlock) =>
        /\ kept[1].ret.kind = "embedding"
        /\ Len(kept[1].ret.z) = config.n_bottleneck
        /\ kept[2].ret = kept[1].ret

\* two calls that drew different intensities, whose embeddings differ
C12_Witness ==
    /\ Len(kept) = 2
    /\ FullBlock
    /\ kept[2].ret.kind = "embedding"
    /\ \E i \in 1..Len(call.idx) : heap.wie[kept[1].ins[i]] # heap.wie[kept[2].ins[i]]

----------------------------------------------------------------------------
(* GPT.from_pretrained *)
(* The state dict of the model built at line 415 is cut down to four of its     *)
(* names: the three tied token tables, of which encoder.wte.weight is a name    *)
(* GPT-2 does not have, and one weight that GPT-2 stores transposed.  The state *)
(* dict of the checkpoint is an input: any set of these names, each with a      *)
(* shape.  A tensor is kept as its shape and the origin of its values.          *)

C_ATTN == "transformer.h.0.attn.c_attn.weight"

\* the order in which a state dict lists the names
KeyOrder == <<WTE, C_ATTN, ENC_WTE, LM_HEAD>>

Keys(sd) == SelectSeq(KeyOrder, LAMBDA k : k \in DOMAIN sd)

\* line 388
ModelTypes == {"gpt2", "gpt2-medium", "gpt2-large", "gpt2-xl"}

\* line 424: the weights the checkpoint stores as Conv1D, transposed
IsTransposed(k) == k = C_ATTN

Reversed(shape) == <<shape[2], shape[1]>>

\* lines 414-416: the shapes of the parameters of GPT(config)
ModelShape(cfg, k) ==
    IF k = C_ATTN THEN <<3 * cfg.n_embd, cfg.n_embd>> ELSE <<cfg.vocab_size, cfg.n_embd>>

\* lines 418-419: the state dicts a checkpoint may hold: for each name the shape the
\* model has, that shape transposed, or one with a row more
CheckpointShapes(cfg, k) ==
    {ModelShape(cfg, k), Reversed(ModelShape(cfg, k)),
     <<ModelShape(cfg, k)[1] + 1, ModelShape(cfg, k)[2]>>}

Checkpoints(cfg) ==
    UNION {{sd \in [ks -> UNION {CheckpointShapes(cfg, k) : k \in ks}] :
               \A k \in ks : sd[k] \in CheckpointShapes(cfg, k)} :
           ks \in SUBSET {KeyOrder[i] : i \in 1..Len(KeyOrder)}}

\* line 428: assert len(sd_keys_hf) == len(sd_keys)
KeyCountMatches(sd_keys_hf, sd_keys) == Len(sd_keys_hf) = Len(sd_keys)

\* the shape assertions of lines 432 and 437 left out
ShapeMatchesSkipped(k, hf_shape, shape) == TRUE

\* lines 432 and 437: assert sd_hf[k].shape[::-1] == sd[k].shape for a transposed
\* weight, assert sd_hf[k].shape == sd[k].shape for every other
ShapeMatches(k, hf_shape, shape) ==
    IF IsTransposed(k) THEN Reversed(hf_shape) = shape ELSE hf_shape = shape

InitPretrained ==
    /\ config \in CallConfigs
    /\ pc = "idle"
    /\ call = NoCall
    /\ ret = NoRet
    /\ gen = NoGen
    /\ heap = <<>>
    /\ params = <<>>
    /\ kept = <<>>
    /\ prep = <<>>

\* GPT.from_pretrained(model_type, override_args) by a caller
FromPretrainedCall ==
    /\ pc = "idle"
    /\ \E model_type \in {"gpt2", "gpt2-xl", "gpt3"},
          override_args \in {{}, {"dropout"}, {"bias"}} :
          call' = [op |-> "from_pretrained", model_type |-> model_type,
                   override_args |-> override_args]
    /\ pc' = "from_pretrained"
    /\ UNCHANGED <<config, ret, gen, heap, params, kept, prep>>

\* lines 388-416: the two assertions on the arguments, then model = GPT(config) and
\* its state dict: the three token tables are one tensor (lines 234-235)
FromPretrainedBuild ==
    /\ pc = "from_pretrained"
    /\ IF call.model_type \notin ModelTypes \/ \E k \in call.override_args : k # "dropout"
       THEN /\ ret' = Raise("AssertionError", <<"arguments">>)
            /\ pc' = "from_pretrained_done"
            /\ UNCHANGED <<heap, params>>
       ELSE /\ params' = Tied([k \in {KeyOrder[i] : i \in 1..Len(KeyOrder)} |-> k])
            /\ heap' = [k \in {C_ATTN, LM_HEAD} |->
                           [shape |-> ModelShape(config, k), data |-> <<"init">>]]
            /\ ret' = ret
            /\ pc' = "load"
    /\ UNCHANGED <<config, call, gen, kept, prep>>

\* lines 418-428: the checkpoint is fetched and the numbers of names are compared
FromPretrainedLoad ==
    /\ pc = "load"
    /\ \E sd_hf \in Checkpoints(config) :
          /\ gen' = [sd_hf |-> sd_hf, todo |-> Keys(sd_hf), copied |-> {}]
          /\ IF KeyCountMatches(Keys(sd_hf), Keys(params))
             THEN ret' = ret /\ pc' = "copy"
             ELSE /\ ret' = Raise("AssertionError", <<"arguments", "key_count">>)
                  /\ pc' = "from_pretrained_done"
    /\ UNCHANGED <<config, call, heap, params, kept, prep>>

\* lines 429-439: one iteration of the copy loop: the shape assertion for the next
\* name, then the copy in place into the tensor of that name
FromPretrainedCopy ==
    /\ pc = "copy"
    /\ gen.todo # <<>>
    /\ LET k == Head(gen.todo) IN
       IF ShapeMatches(k, gen.sd_hf[k], heap[params[k]].shape)
       THEN /\ heap' = [heap EXCEPT ![params[k]].data = <<"checkpoint", k>>]
            /\ gen' = [gen EXCEPT !.todo = Tail(gen.todo), !.copied = gen.copied \cup {k}]
            /\ ret' = ret
            /\ pc' = "copy"
       ELSE /\ ret' = Raise("AssertionError", <<"arguments", "key_count", "shape">>)
            /\ pc' = "from_pretrained_done"
            /\ UNCHANGED <<heap, gen>>
    /\ UNCHANGED <<config, call, params, kept, prep>>

\* line 441: return model
FromPretrainedReturn ==
    /\ pc = "copy"
    /\ gen.todo = <<>>
    /\ ret' = [kind |-> "model"]
    /\ pc' = "from_pretrained_done"
    /\ UNCHANGED <<config, call, gen, heap, params, kept, prep>>

NextPretrained ==
    \/ FromPretrainedCall
    \/ FromPretrainedBuild
    \/ FromPretrainedLoad
    \/ FromPretrainedCopy
    \/ FromPretrainedReturn

SpecPretrained == InitPretrained /\ [][NextPretrained]_vars

\* every tensor of the model holds values of the checkpoint, and every name of the
\* checkpoint was copied into a parameter of the model of the matching shape
FullyLoaded ==
    /\ DOMAIN gen.sd_hf = DOMAIN params
    /\ gen.copied = DOMAIN gen.sd_hf
    /\ \A k \in DOMAIN gen.sd_hf :
          /\ heap[params[k]].data # <<"init">>
          /\ heap[params[k]].shape =
                IF IsTransposed(k) THEN Reversed(gen.sd_hf[k]) ELSE gen.sd_hf[k]

\* the number of names or the shape of some name differs between checkpoint and model
Mismatch ==
    \/ Cardinality(DOMAIN gen.sd_hf) # Cardinality(DOMAIN params)
    \/ \E k \in DOMAIN gen.sd_hf :
          heap[params[k]].shape # IF IsTransposed(k) THEN Reversed(gen.sd_hf[k]) ELSE gen.sd_hf[k]

\* C14: from_pretrained returns a model only when every parameter of the
\* checkpoint was copied into a model parameter of matching (for the transposed
\* weights: exactly transposed) shape; otherwise it raises an assertion error and
\* returns no model, which for valid arguments happens exactly on a mismatch of
\* the number of names or of a shape.  Nothing is returned while the copy runs.
C14_NeverPartiallyLoaded ==
    /\ pc \in {"from_pretrained", "load", "copy"} => ret = NoRet
    /\ pc = "from_pretrained_done" =>
          \/ ret.kind = "model" /\ FullyLoaded /\ ~Mismatch
          \/ /\ ret.kind = "raise"
             /\ ret.exc = "AssertionError"
             /\ ret.steps # <<"arguments">> => Mismatch

\* an assertion on the shape of a later name, after an earlier name was copied
C14_Witness ==
    /\ pc = "from_pretrained_done"
    /\ ret.kind = "raise"
    /\ ret.steps = <<"arguments", "key_count", "shape">>
    /\ gen.copied # {}
    /\ \E k \in DOMAIN params : heap[params[k]].data # <<"init">>
    /\ Cardinality(DOMAIN gen.sd_hf) = Cardinality(DOMAIN params)

----------------------------------------------------------------------------
(* data/ms2/prepare.py *)
(* A token of the input file is a positive integer, the order of the integers   *)
(* standing for the order in which sorted() puts the token strings; PAD is the  *)
(* padding token "[PAD]".                                                       *)

PAD == 0
Words == {1, 2}

\* the files explored: up to MaxLines lines of up to BLOCK_SIZE + 1 tokens
InputFiles == SeqsUpTo(SeqsUpTo(Words, 0, BLOCK_SIZE + 1), 0, MaxLines)

\* line 25: line.rstrip().split()[:BLOCK_SIZE]
Cut(line) == IF Len(line) <= BLOCK_SIZE THEN line ELSE SubSeq(line, 1, BLOCK_SIZE)

\* line 26: d + (BLOCK_SIZE - len(d)) * [PAD]
Padded(d) == d \o [i \in 1..(BLOCK_SIZE - Len(d)) |-> PAD]

\* [d for sublist in data for d in sublist]
RECURSIVE Flatten(_)
Flatten(data) == IF data = <<>> THEN <<>> ELSE Head(data) \o Flatten(Tail(data))

\* sorted(set(...))
RECURSIVE Sorted(_)
Sorted(S) ==
    IF S = {} THEN <<>>
    ELSE LET m == CHOOSE x \in S : \A y \in S : x <= y IN <<m>> \o Sorted(S \ {m})

\* line 33: [PAD] + sorted(set(d ... if d not in [PAD]))
Chars(data) ==
    <<PAD>> \o Sorted({Flatten(data)[i] : i \in 1..Len(Flatten(data))} \ {PAD})

\* line 38: { ch:i for i,ch in enumerate(chars) }
Stoi(chars) ==
    [ch \in {chars[i] : i \in 1..Len(chars)} |-> (CHOOSE i \in 1..Len(chars) : chars[i] = ch) - 1]

\* lines 41-42: [stoi[c] for c in s]
Encode(stoi, s) == [i \in 1..Len(s) |-> stoi[s[i]]]

\* lines 50-51: int(n*0.9), the product truncated towards zero
SplitAt(n) == (n * 9) \div 10

\* lines 60-61: np.array(ids, dtype=np.uint16)
Uint16(ids) == [i \in 1..Len(ids) |-> ids[i] % 65536]

\* lines 17-18: the lines of the input file are read
InitPrepare ==
    /\ config = <<>>
    /\ pc = "read"
    /\ call = NoCall
    /\ ret = NoRet
    /\ gen = NoGen
    /\ heap = <<>>
    /\ params = <<>>
    /\ kept = <<>>
    /\ \E lines \in InputFiles :
          prep = [lines |-> lines, data |-> <<>>, chars |-> <<>>, stoi |-> <<>>,
                  train_data |-> <<>>, val_data |-> <<>>,
                  train_ids |-> <<>>, val_ids |-> <<>>, files |-> <<>>]

\* lines 23-27: every line is cut and padded to BLOCK_SIZE tokens
PadLines ==
    /\ pc = "read"
    /\ prep' = [prep EXCEPT !.data = [i \in 1..Len(prep.lines) |-> Padded(Cut(prep.lines[i]))]]
    /\ pc' = "padded"
    /\ UNCHANGED <<config, call, ret, gen, heap, params, kept>>

\* lines 33-39: the vocabulary and its mapping to integers
BuildVocab ==
    /\ pc = "padded"
    /\ prep' = [prep EXCEPT !.chars = Chars(prep.data), !.stoi = Stoi(Chars(prep.data))]
    /\ pc' = "vocab"
    /\ UNCHANGED <<config, call, ret, gen, heap, params, kept>>

\* lines 49-51: the train and validation splits
SplitData ==
    /\ pc = "vocab"
    /\ LET n == Len(prep.data) IN
          prep' = [prep EXCEPT !.train_data = SubSeq(prep.data, 1, SplitAt(n)),
                               !.val_data = SubSeq(prep.data, SplitAt(n) + 1, n)]
    /\ pc' = "split"
    /\ UNCHANGED <<config, call, ret, gen, heap, params, kept>>

\* lines 54-55: both id lists are encoded from train_data
EncodeSplits ==
    /\ pc = "split"
    /\ prep' = [prep EXCEPT !.train_ids = Encode(prep.stoi, Flatten(prep.train_data)),
                            !.val_ids = Encode(prep.stoi, Flatten(prep.train_data))]
    /\ pc' = "encoded"
    /\ UNCHANGED <<config, call, ret, gen, heap, params, kept>>

\* lines 60-63: train.bin and val.bin are written as uint16
WriteBins ==
    /\ pc = "encoded"
    /\ prep' = [prep EXCEPT !.files = [f \in {"train.bin", "val.bin"} |->
                     IF f = "train.bin" THEN Uint16(prep.train_ids) ELSE Uint16(prep.val_ids)]]
    /\ pc' = "written"
    /\ UNCHANGED <<config, call, ret, gen, heap, params, kept>>

NextPrepare == PadLines \/ BuildVocab \/ SplitData \/ EncodeSplits \/ WriteBins

SpecPrepare == InitPrepare /\ [][NextPrepare]_vars

\* C16: once the script has written its files (for an input of two lines or more,
\* so that both splits hold a sequence), train.bin holds the encoding of the
\* first 90% of the padded sequences and val.bin the encoding of the remaining
\* 10%, so that every sequence is in exactly one of the two streams.
C16_SplitIsAPartition ==
    (pc = "written" /\ Len(prep.data) >= 2) =>
        LET n == Len(prep.data)
            first == SubSeq(prep.data, 1, SplitAt(n))
            rest == SubSeq(prep.data, SplitAt(n) + 1, n)
        IN  /\ prep.files["train.bin"] = Encode(prep.stoi, Flatten(first))
            /\ prep.files["val.bin"] = Encode(prep.stoi, Flatten(rest))
            /\ Len(prep.files["train.bin"]) + Len(prep.files["val.bin"]) = n * BLOCK_SIZE

====
